---- MODULE Spec2Model ----
(***************************************************************************)
(* Model of anfis_diabetes_main.py: the particle swarm optimizer PSO and   *)
(* the parameter/layout handling of the ANFIS class.                       *)
(*                                                                         *)
(* Numbers.  Every real quantity of PSO (positions, velocities, bounds) is *)
(* kept in fixed point: the integer x stands for the real x / Scale.  A    *)
(* product or quotient is rounded to the nearest grid point.  The float    *)
(* NaN, which the hyperbolic confinement produces as 0/0, is the value     *)
(* NaN below; fmin/fmax skip it as numpy's do.                             *)
(* Random draws (np.random.rand, the hypersphere point, the informant      *)
(* matrix) and the costs the objective returns are nondeterministic        *)
(* choices over small sets.                                                *)
(***************************************************************************)
EXTENDS Integers, Sequences, FiniteSets

VARIABLES
    pc,               \* position in PSO: "start", "loop", "eval", "done"
    cfg,              \* the arguments of the call (LB, UB, K, conf_type, ...)
    epoch,            \* number of completed iterations of the main loop
    agent_pos,        \* [particle -> [dim -> position]]
    agent_vel,        \* [particle -> [dim -> velocity]]
    agent_best_pos,   \* personal best positions
    agent_best_cost,  \* personal best costs
    swarm_best_cost,  \* best cost of the swarm
    swarm_best_idx,   \* index of the swarm-best particle; swarm_best_pos is
                      \* the numpy view agent_best_pos[swarm_best_idx, :]
    group_best_pos,   \* group best position of each particle
    p_equal_g,        \* bias factor of each particle, in quarters (3 or 4)
    informants,       \* [particle -> [particle -> 0..1]] adjacency (K > 0)
    handed,           \* the matrix of the latest call of func
    nCalls,           \* number of calls of func so far
    sampled,          \* whether the latest step sampled an informant matrix
    minSeen,          \* least cost func has returned so far
    argSeen,          \* the first row func returned minSeen for
    prev_best,        \* swarm_best_cost as the previous epoch left it
    ret,              \* what PSO returned
    anfis,            \* one ANFIS instance: its attributes
    last,             \* the latest call of a method of the instance
    step              \* one component of one agent in lines 655-685

pso_vars == <<pc, cfg, epoch, agent_pos, agent_vel, agent_best_pos,
              agent_best_cost, swarm_best_cost, swarm_best_idx,
              group_best_pos, p_equal_g, informants, handed, nCalls,
              sampled, minSeen, argSeen, prev_best, ret>>

anfis_vars == <<anfis, last>>

step_vars == <<step>>

vars == <<pso_vars, anfis_vars, step_vars>>

----------------------------------------------------------------------------
(* The swarm, the grid and the bounds of the exploration *)

\* Grid points per unit of a float: the integer x stands for x / Scale.
Scale == 2
\* np.random.rand draws k / RandDen, k in 0..RandDen-1.
RandDen == 2
\* The argument nPop: the number of agents.
NPop == 2
\* nVar = len(LB): the dimension of the search space.
NVar == 1
\* The argument epochs of the calls explored.
MaxEpochs == 2
\* func returns costs in 0..MaxCost.
MaxCost == 1

Particles == 1..NPop
Dims == 1..NVar
Costs == 0..MaxCost
Rand == 0..(RandDen - 1)

----------------------------------------------------------------------------
(* Floating point helpers *)

\* The float NaN (0.0 / 0.0 at lines 800 and 803).
NaN == -1000000

IsNaN(x) == x = NaN

Abs(x) == IF x < 0 THEN -x ELSE x

\* p / q rounded to the nearest integer (q > 0), halves upwards.
RoundDiv(p, q) == (2 * p + q) \div (2 * q)

\* a + b in floats: NaN is absorbing.
FAdd(a, b) == IF IsNaN(a) \/ IsNaN(b) THEN NaN ELSE a + b

\* np.fmax / np.fmin: the other operand when one is NaN.
FMax(a, b) == IF IsNaN(a) THEN b ELSE IF IsNaN(b) THEN a
              ELSE IF a >= b THEN a ELSE b

FMin(a, b) == IF IsNaN(a) THEN b ELSE IF IsNaN(b) THEN a
              ELSE IF a <= b THEN a ELSE b

\* np.floor and np.ceil of x / Scale, in grid units.
Floor(x) == (x \div Scale) * Scale

Ceil(x) == -(((-x) \div Scale) * Scale)

\* np.round: to the nearest integer, halves to the even one; NaN stays NaN.
NpRound(x) ==
    IF IsNaN(x) THEN NaN
    ELSE LET q == x \div Scale
             r == x % Scale
         IN  IF 2 * r < Scale THEN q * Scale
             ELSE IF 2 * r > Scale THEN (q + 1) * Scale
             ELSE IF q % 2 = 0 THEN q * Scale ELSE (q + 1) * Scale

IsIntegral(x) == ~IsNaN(x) /\ x % Scale = 0

----------------------------------------------------------------------------
(* The arguments of PSO *)

\* phi = 2.05 gives w = 1/(phi - 1 + sqrt(phi^2 - 2 phi)) = 0.7298 and
\* cmax = w * phi = 1.4962; on the grid w is WNum / WDen and the factor
\* (1/3) * cmax of the gravity point is CNum / CDen.
WNum == 3
WDen == 4
CNum == 1
CDen == 2
\* vel_fact = 0.5 is VelFactNum / VelFactDen.
VelFactNum == 1
VelFactDen == 2

\* The search boxes <<LB, UB>> of one variable, in grid units: [0, 1],
\* [1/2, 3/2] (for Scale = 2) and the degenerate box that pins the variable.
Boxes == { <<0, Scale>>,
           <<Scale \div 2, Scale + Scale \div 2>>,
           <<Scale \div 2, Scale \div 2>> }

\* An empty box, LB > UB.
EmptyBoxes == { <<Scale, 0>> }

ConfTypes == {"RB", "HY", "MX"}

\* K = 0 is the whole swarm; every K > 0 takes the informant branch.
KValues == {0, 1}

\* The box normalize = True is explored with: PSO then works on [0, 1]
\* whatever the box, which only de-normalization reads.
NormBox == <<Scale \div 2, Scale + Scale \div 2>>

\* The calls PSO(func, LB, UB, nPop, epochs, K, conf_type, IntVar, normalize)
\* whose box of every variable is in boxes.  IntVar is the set of the
\* (1-based) indexes of the integer variables, {} standing for None.
AllConfigs(boxes) ==
    { [ LB |-> [d \in Dims |-> bx[d][1]],
        UB |-> [d \in Dims |-> bx[d][2]],
        K |-> k, conf_type |-> ct, IntVar |-> iv, normalize |-> nz,
        epochs |-> MaxEpochs ] :
        bx \in [Dims -> boxes], k \in KValues, ct \in ConfTypes,
        iv \in SUBSET Dims, nz \in BOOLEAN }

Configs(boxes) ==
    { c \in AllConfigs(boxes) :
        c.normalize => \A d \in Dims : <<c.LB[d], c.UB[d]>> = NormBox }

BoxesOf(c) == { <<c.LB[d], c.UB[d]>> : d \in Dims }

\* LB and UB as PSO uses them after line 591.
LBn(c, d) == IF c.normalize THEN 0 ELSE c.LB[d]

UBn(c, d) == IF c.normalize THEN Scale ELSE c.UB[d]

\* vel_max = vel_fact * (UB - LB), vel_min = - vel_max.
VelMax(c, d) == RoundDiv(VelFactNum * (UBn(c, d) - LBn(c, d)), VelFactDen)

VelMin(c, d) == - VelMax(c, d)

\* agent_vel = np.fmin(np.fmax(agent_vel, vel_min), vel_max)
ClampVel(c, d, v) == FMin(FMax(v, VelMin(c, d)), VelMax(c, d))

\* agent_pos[:, IntVar] = np.round(agent_pos[:, IntVar])
RoundInt(c, d, x) == IF d \in c.IntVar THEN NpRound(x) ELSE x

\* Lines 680-685 left out: the position as the velocity update left it.
NoClip(c, d, x) == x

\* agent_pos = np.fmin(np.fmax(agent_pos, LB), UB), then for the integer
\* variables np.fmax with ceil(LB) and np.fmin with floor(UB).
ClipPos(c, d, x) ==
    LET y == FMin(FMax(x, LBn(c, d)), UBn(c, d))
    IN  IF d \in c.IntVar
        THEN FMin(FMax(y, Ceil(LBn(c, d))), Floor(UBn(c, d)))
        ELSE y

\* The normalized position taken for the original one: line 615 left out.
NotDenormalized(c, d, x) == x

\* agent_pos_orig = LB_orig + agent_pos * (UB_orig - LB_orig)
Denorm(c, d, x) == c.LB[d] + RoundDiv(x * (c.UB[d] - c.LB[d]), Scale)

\* The matrix func is called with.
HandedMatrix(c, pos) ==
    IF c.normalize
    THEN [i \in Particles |-> [d \in Dims |-> Denorm(c, d, pos[i][d])]]
    ELSE pos

\* np.argmin: the first index of the least cost.
ArgMin(cost) ==
    CHOOSE i \in Particles :
        /\ \A j \in Particles : cost[i] <= cost[j]
        /\ \A j \in Particles : j < i => cost[j] > cost[i]

Min(S) == CHOOSE x \in S : \A y \in S : x <= y

\* np.where(np.random.rand(nPop, nPop) < p_informant, 1, 0) followed by
\* np.fill_diagonal(informants, 1); 0 < p_informant < 1 when nPop > 1.
InformantMatrices ==
    { m \in [Particles -> [Particles -> 0..1]] :
        \A i \in Particles : m[i][i] = 1 }

NoInformants == [i \in Particles |-> [j \in Particles |-> 0]]

\* group_best: for agent i the first informant of least personal best cost
\* (np.argmin over a row whose non-informants cost infinity).
GroupBestIdx(inf, cost, i) ==
    LET mine == { j \in Particles : inf[i][j] = 1 }
    IN  IF mine = {} THEN 1
        ELSE CHOOSE j \in mine :
                /\ \A k \in mine : cost[j] <= cost[k]
                /\ \A k \in mine : k < j => cost[k] > cost[j]

GroupBestPos(inf, bpos, cost) ==
    [i \in Particles |-> bpos[GroupBestIdx(inf, cost, i)]]

\* p_equal_g: 0.75 where the agent is its own group best, else 1.0 (quarters).
GroupPEqualG(inf, cost) ==
    [i \in Particles |-> IF GroupBestIdx(inf, cost, i) = i THEN 3 ELSE 4]

----------------------------------------------------------------------------
(* One epoch: the move of the swarm (lines 646-685) *)

RECURSIVE SumSqTo(_, _)
SumSqTo(f, n) == IF n = 0 THEN 0 ELSE f[n] * f[n] + SumSqTo(f, n - 1)

RECURSIVE SumAbsTo(_, _)
SumAbsTo(f, n) == IF n = 0 THEN 0 ELSE Abs(f[n]) + SumAbsTo(f, n - 1)

SumAbs(f) == SumAbsTo(f, NVar)

\* Squared Euclidean norm of a vector over Dims.
SumSq(f) == SumSqTo(f, NVar)

\* Gr - agent_pos = (1/3) * cmax * (best + group_best - 2 pos) * p_equal_g
GravityOffset(pos, bpos, gpos, peg) ==
    [d \in Dims |->
        RoundDiv(CNum * (bpos[d] + gpos[d] - 2 * pos[d]) * peg, CDen * 4)]

\* hypersphere_point: a point u * (r / |u|) with r drawn in [0, r_max],
\* r_max = |Gr - agent_pos|: any grid vector no longer than r_max.
SpherePoints(gr) ==
    LET R == SumAbs(gr)
    IN  { x \in [Dims -> (-R)..R] : SumSq(x) <= SumSq(gr) }

\* w * agent_vel
WTimes(v) == IF IsNaN(v) THEN NaN ELSE RoundDiv(WNum * v, WDen)

\* The flag with the two bounds counted as inside the search space.
BeyondBounds(c, d, tmp) == tmp < LBn(c, d) \/ tmp > UBn(c, d)

\* out = np.logical_not((agent_pos_tmp > LB) * (agent_pos_tmp < UB))
IsOut(c, d, tmp) == ~(tmp > LBn(c, d) /\ tmp < UBn(c, d))

\* hyperbolic_conf: v / (1 + |v / (UB - pos)|) where v > 0 and
\* v / (1 + |v / (pos - LB)|) elsewhere.  A zero denominator gives
\* v / inf = 0 for v # 0 and 0 / 0 = NaN for v = 0.
hyperbolic_conf(c, d, pos, v) ==
    LET den == IF v > 0 THEN UBn(c, d) - pos ELSE pos - LBn(c, d)
    IN  IF den = 0 THEN (IF v = 0 THEN NaN ELSE 0)
        ELSE RoundDiv(v * Abs(den), Abs(den) + Abs(v))

\* random_back_conf: - np.random.rand() * v, the draw being u / RandDen.
random_back_conf(v, u) == - RoundDiv(u * v, RandDen)

\* mixed_conf: hyperbolic where gamma >= 0.5 (g), random-back elsewhere.
mixed_conf(c, d, pos, v, u, g) ==
    IF g THEN hyperbolic_conf(c, d, pos, v) ELSE random_back_conf(v, u)

\* vel_conf as chosen by conf_type (lines 663-670).
VelConf(c, d, pos, v, u, g) ==
    IF c.conf_type = "RB" THEN random_back_conf(v, u)
    ELSE IF c.conf_type = "HY" THEN hyperbolic_conf(c, d, pos, v)
    ELSE mixed_conf(c, d, pos, v, u, g)

\* Lines 650-653: the updated velocity with the velocity limits imposed.
NewVel(c, d, v, gr, x) == ClampVel(c, d, FAdd(WTimes(v), gr + x))

\* Lines 657-659: the tentative position.
TmpPos(c, d, pos, v1) == RoundInt(c, d, pos + v1)

\* Line 674: agent_vel = np.where(out, vel_conf, agent_vel)
ConfinedVel(c, d, pos, v1, u, g) ==
    IF IsOut(c, d, TmpPos(c, d, pos, v1))
    THEN VelConf(c, d, pos, v1, u, g)
    ELSE v1

\* Lines 675-685: the new position from the confined velocity v2.
NewPos(c, d, pos, v2) == ClipPos(c, d, RoundInt(c, d, FAdd(pos, v2)))

\* The draws <<u, g>> the confinement of one component reads: u is the
\* np.random.rand of random_back_conf and g is gamma >= 0.5 of mixed_conf.
\* A draw that the confinement does not read (the component is not flagged,
\* or the other strategy is in use) is fixed at <<0, TRUE>>.
ConfDraws(c, flagged) ==
    IF ~flagged \/ c.conf_type = "HY" THEN { <<0, TRUE>> }
    ELSE IF c.conf_type = "RB" THEN { <<u, TRUE>> : u \in Rand }
    ELSE { <<0, TRUE>> } \cup { <<u, FALSE>> : u \in Rand }

----------------------------------------------------------------------------
(* PSO as a state machine *)

\* The comparison of lines 695 and 701 turned around, as a maximizer
\* would have it.
Greater(a, b) == a > b

\* The comparison of costs PSO minimizes with (lines 695 and 701).
Less(a, b) == a < b

\* Line 696 without the mask of line 695: every agent's position of this
\* epoch.
LatestPos(pos, bpos, cost, bcost) == pos

\* Lines 694-697: personal bests after the costs of this epoch.
BetterPos(pos, bpos, cost, bcost) ==
    [i \in Particles |-> IF Less(cost[i], bcost[i]) THEN pos[i] ELSE bpos[i]]

BetterCost(cost, bcost) ==
    [i \in Particles |-> IF Less(cost[i], bcost[i]) THEN cost[i] ELSE bcost[i]]

\* Line 701 with <= in the place of <: the swarm best is taken over on a
\* tie as well.
NotWorse(bcost, sbest) == bcost[ArgMin(bcost)] <= sbest

\* Line 701: the swarm best improved.
Improved(bcost, sbest) == Less(bcost[ArgMin(bcost)], sbest)

\* Lines 706-716 without the test of line 701: with informants, a new
\* matrix in every epoch.
ResampleAlways(imp, K) == K # 0

\* Lines 701-716: the informants are drawn again if the swarm best did not
\* improve and PSO runs with informants.
Resample(imp, K) == ~imp /\ K # 0

\* The first row of the matrix m for which func returned the cost v.
RowAt(m, cost, v) == m[Min({ j \in Particles : cost[j] = v })]

\* argSeen after a call of func with the matrix m that returned cost: the
\* row of the earliest call, and the first in it, with the least cost.
ArgSeenAfter(seen, least, m, cost) ==
    LET now == Min({cost[i] : i \in Particles})
    IN  IF now < least THEN RowAt(m, cost, now) ELSE seen

\* range(epochs + 1) in the place of range(epochs).
OneMoreEpoch(c, e) == e <= c.epochs

\* for epoch in range(epochs): another iteration follows.
MoreEpochs(c, e) == e < c.epochs

ZeroMatrix == [i \in Particles |-> [d \in Dims |-> 0]]

NoResult == [pos |-> [d \in Dims |-> 0], cost |-> 0, idx |-> 0]

\* The state at the call PSO(...) with arguments c.
Called(c) ==
    /\ pc = "start"
    /\ cfg = c
    /\ epoch = 0
    /\ agent_pos = ZeroMatrix
    /\ agent_vel = ZeroMatrix
    /\ agent_best_pos = ZeroMatrix
    /\ agent_best_cost = [i \in Particles |-> 0]
    /\ swarm_best_cost = 0
    /\ swarm_best_idx = 0
    /\ group_best_pos = ZeroMatrix
    /\ p_equal_g = [i \in Particles |-> 4]
    /\ informants = NoInformants
    /\ handed = ZeroMatrix
    /\ nCalls = 0
    /\ sampled = FALSE
    /\ minSeen = 0
    /\ argSeen = [d \in Dims |-> 0]
    /\ prev_best = 0
    /\ ret = NoResult

\* swarm_best_pos: a view of row swarm_best_idx of agent_best_pos, which
\* is only ever updated in place (lines 626, 696, 702).
SwarmBestPos(bpos, idx) == bpos[idx]

\* Lines 604-607: the initial positions from the draws r.
InitPos(c, r) ==
    [i \in Particles |-> [d \in Dims |->
        RoundInt(c, d, LBn(c, d)
                       + RoundDiv(r[i][d] * (UBn(c, d) - LBn(c, d)), RandDen))]]

\* Lines 609-611: the initial velocities from the draws r.
InitVel(c, pos, r) ==
    [i \in Particles |-> [d \in Dims |->
        ClampVel(c, d, (LBn(c, d) - pos[i][d])
                       + RoundDiv(r[i][d] * (UBn(c, d) - LBn(c, d)), RandDen))]]

\* Lines 574-641: everything before the main loop.
PSOInit ==
    /\ pc = "start"
    /\ \E r1 \in [Particles -> [Dims -> Rand]],
          r2 \in [Particles -> [Dims -> Rand]],
          cost \in [Particles -> Costs],
          inf \in (IF cfg.K = 0 THEN {NoInformants} ELSE InformantMatrices) :
        LET pos == InitPos(cfg, r1)
            idx == ArgMin(cost)
        IN  /\ agent_pos' = pos
            /\ agent_vel' = InitVel(cfg, pos, r2)
            /\ handed' = HandedMatrix(cfg, pos)
            /\ nCalls' = nCalls + 1
            /\ minSeen' = Min({cost[i] : i \in Particles})
            /\ argSeen' = RowAt(HandedMatrix(cfg, pos), cost,
                                Min({cost[i] : i \in Particles}))
            /\ prev_best' = cost[idx]
            /\ agent_best_pos' = pos
            /\ agent_best_cost' = cost
            /\ swarm_best_cost' = cost[idx]
            /\ swarm_best_idx' = idx
            /\ informants' = inf
            /\ sampled' = (cfg.K # 0)
            /\ IF cfg.K = 0
               THEN /\ group_best_pos' =
                          [i \in Particles |-> SwarmBestPos(pos, idx)]
                    /\ p_equal_g' =
                          [i \in Particles |-> IF i = idx THEN 3 ELSE 4]
               ELSE /\ group_best_pos' = GroupBestPos(inf, pos, cost)
                    /\ p_equal_g' = GroupPEqualG(inf, cost)
    /\ pc' = "loop"
    /\ UNCHANGED <<cfg, epoch, ret, anfis_vars, step_vars>>

\* Gr - agent_pos of every agent in the current state (line 647).
GrOffsets ==
    [i \in Particles |->
        GravityOffset(agent_pos[i], agent_best_pos[i],
                      group_best_pos[i], p_equal_g[i])]

\* The x_sphere matrices hypersphere_point can return in the current state.
SphereDraws ==
    { x \in [Particles -> UNION {SpherePoints(GrOffsets[i]) : i \in Particles}] :
        \A i \in Particles : x[i] \in SpherePoints(GrOffsets[i]) }

\* Lines 646-685: velocities and positions of one epoch.
Move ==
    /\ pc = "loop"
    /\ MoreEpochs(cfg, epoch)
    /\ \E x \in SphereDraws :
        LET v1 == [i \in Particles |-> [d \in Dims |->
                     NewVel(cfg, d, agent_vel[i][d], GrOffsets[i][d], x[i][d])]]
            flagged(i, d) == IsOut(cfg, d, TmpPos(cfg, d, agent_pos[i][d], v1[i][d]))
        IN  \E r \in { q \in [Particles -> [Dims -> (Rand \X BOOLEAN)]] :
                        \A i \in Particles, d \in Dims :
                            q[i][d] \in ConfDraws(cfg, flagged(i, d)) } :
            LET v2 == [i \in Particles |-> [d \in Dims |->
                         ConfinedVel(cfg, d, agent_pos[i][d], v1[i][d],
                                     r[i][d][1], r[i][d][2])]]
            IN  /\ agent_vel' = v2
                /\ agent_pos' = [i \in Particles |-> [d \in Dims |->
                         NewPos(cfg, d, agent_pos[i][d], v2[i][d])]]
    /\ pc' = "eval"
    /\ sampled' = FALSE
    /\ UNCHANGED <<cfg, epoch, agent_best_pos, agent_best_cost,
                   swarm_best_cost, swarm_best_idx, group_best_pos, p_equal_g,
                   informants, handed, nCalls, minSeen, argSeen, prev_best,
                   ret, anfis_vars, step_vars>>

\* Lines 687-725: the call of func and the bookkeeping of one epoch.
Evaluate ==
    /\ pc = "eval"
    /\ \E cost \in [Particles -> Costs] :
        LET bpos == BetterPos(agent_pos, agent_best_pos, cost, agent_best_cost)
            bcost == BetterCost(cost, agent_best_cost)
            idx == ArgMin(bcost)
            imp == Improved(bcost, swarm_best_cost)
            resample == Resample(imp, cfg.K)
            sidx == IF imp THEN idx ELSE swarm_best_idx
        IN  \E inf \in (IF resample THEN InformantMatrices ELSE {informants}) :
            /\ handed' = HandedMatrix(cfg, agent_pos)
            /\ nCalls' = nCalls + 1
            /\ minSeen' = Min({minSeen} \cup {cost[i] : i \in Particles})
            /\ argSeen' = ArgSeenAfter(argSeen, minSeen,
                                       HandedMatrix(cfg, agent_pos), cost)
            /\ prev_best' = swarm_best_cost
            /\ agent_best_pos' = bpos
            /\ agent_best_cost' = bcost
            /\ swarm_best_cost' = IF imp THEN bcost[idx] ELSE swarm_best_cost
            /\ swarm_best_idx' = sidx
            /\ informants' = inf
            /\ sampled' = resample
            /\ IF cfg.K = 0
               THEN /\ group_best_pos' =
                          [i \in Particles |-> SwarmBestPos(bpos, sidx)]
                    /\ p_equal_g' = p_equal_g
               ELSE /\ group_best_pos' = GroupBestPos(inf, bpos, bcost)
                    /\ p_equal_g' = GroupPEqualG(inf, bcost)
    /\ epoch' = epoch + 1
    /\ pc' = "loop"
    /\ UNCHANGED <<cfg, agent_pos, agent_vel, ret, anfis_vars, step_vars>>

\* Lines 727-744: the result, de-normalized if necessary.
Finish ==
    /\ pc = "loop"
    /\ ~MoreEpochs(cfg, epoch)
    /\ ret' = [pos |-> IF cfg.normalize
                       THEN [d \in Dims |->
                               Denorm(cfg, d,
                                  SwarmBestPos(agent_best_pos, swarm_best_idx)[d])]
                       ELSE SwarmBestPos(agent_best_pos, swarm_best_idx),
               cost |-> swarm_best_cost,
               idx |-> swarm_best_idx]
    /\ pc' = "done"
    /\ UNCHANGED <<cfg, epoch, agent_pos, agent_vel, agent_best_pos,
                   agent_best_cost, swarm_best_cost, swarm_best_idx,
                   group_best_pos, p_equal_g, informants, handed, nCalls,
                   sampled, minSeen, argSeen, prev_best, anfis_vars, step_vars>>

\* interface_PSO (lines 929-945) with one learner per agent: learner i binds
\* mu, s, c and A from row i of every matrix PSO hands to func, so the vector
\* its parameters are the slices of is row i of the last matrix handed.
LearnerTheta(i) == handed[i]

----------------------------------------------------------------------------
(* The ANFIS class: layout and parameters *)

\* Largest number of inputs (len(n_mf)) and of MFs of one input.
MaxInputs == 2
MaxMf == 3
\* Largest value of the argument n_outputs.
MaxOutputs == 2
\* Number of calls of methods explored on one instance.
MaxCalls == 2

RECURSIVE SumSeq(_)
SumSeq(q) == IF q = <<>> THEN 0 ELSE Head(q) + SumSeq(Tail(q))

RECURSIVE ProdSeq(_)
ProdSeq(q) == IF q = <<>> THEN 1 ELSE Head(q) * ProdSeq(Tail(q))

\* np.cumsum(n_mf)[i - 1], for i in 1..len(n_mf); 0 for i = 0.
CumSum(nm, i) == SumSeq(SubSeq(nm, 1, i))

\* np.arange(a, b) as a sequence.
Arange(a, b) == [k \in 1..(b - a) |-> a + k - 1]

\* list(itertools.product(*v)): the tuples in lexicographic order, the last
\* component varying fastest.
RECURSIVE Product(_)
Product(v) ==
    IF v = <<>> THEN << <<>> >>
    ELSE LET rest == Product(Tail(v))
             n == Len(rest)
         IN  [k \in 1..(Len(Head(v)) * n) |->
                <<Head(v)[((k - 1) \div n) + 1]>> \o rest[((k - 1) % n) + 1]]

\* np.asarray(list_of_tuples).T, for tuples of length nrows.
Transpose(list, nrows) ==
    [i \in 1..nrows |-> [j \in 1..Len(list) |-> list[j][i]]]

\* The ranges without the offsets: np.arange(0, n_mf[i]) for every input.
MfRangesFromZero(nm) == [i \in 1..Len(nm) |-> Arange(0, nm[i])]

\* The ranges v of build_combs: np.arange(idx[i-1], idx[i]) (lines 172-176).
MfRanges(nm) ==
    [i \in 1..Len(nm) |-> Arange(CumSum(nm, i - 1), CumSum(nm, i))]

\* ANFIS.build_combs (lines 164-179): the value it binds to self.combs.
build_combs(nm) == Transpose(Product(MfRanges(nm)), Len(nm))

\* The input whose MFs include premise column p (1-based).
InputOf(nm, p) ==
    CHOOSE i \in 1..Len(nm) : CumSum(nm, i - 1) < p /\ p <= CumSum(nm, i)

\* ANFIS.expand_input_dataset: column i of X repeated n_mf[i] times.
expand_input_dataset(nm, X) ==
    [k \in 1..Len(X) |-> [p \in 1..SumSeq(nm) |-> X[k][InputOf(nm, p)]]]

RECURSIVE SortedSeq(_)
SortedSeq(S) ==
    IF S = {} THEN <<>> ELSE <<Min(S)>> \o SortedSeq(S \ {Min(S)})

\* build_class_matrix: <<Yout, Yu>>, Yu the sorted classes of Y and
\* Yout[k][j] = 1 where sample k is of class Yu[j].
build_class_matrix(Y) ==
    LET Yu == SortedSeq({Y[k] : k \in 1..Len(Y)})
    IN  << [k \in 1..Len(Y) |->
              [j \in 1..Len(Yu) |-> IF Y[k] = Yu[j] THEN 1 ELSE 0]],
           Yu >>

\* theta[a:b] for 0 <= a <= b: python cuts the slice at the array's end.
Slice(theta, a, b) ==
    SubSeq(theta, a + 1, IF b <= Len(theta) THEN b ELSE Len(theta))

\* flat.reshape(nrows, ncols), for a flat array of nrows * ncols elements.
Reshape(flat, nrows, ncols) ==
    [r \in 1..nrows |-> [k \in 1..ncols |-> flat[(r - 1) * ncols + k]]]

\* ANFIS.__init__ (lines 75-99).
NewANFIS(nm, n_out, problem) ==
    [ n_mf |-> nm, n_outputs |-> n_out, problem |-> problem,
      n_inputs |-> Len(nm), n_pf |-> SumSeq(nm), n_cf |-> ProdSeq(nm),
      n_var |-> 3 * SumSeq(nm) + (Len(nm) + 1) * ProdSeq(nm) * n_out,
      init_prob |-> TRUE,
      combs |-> <<>>, Xe |-> <<>>, Yout |-> <<>>, Yu |-> <<>>,
      mu |-> <<>>, s |-> <<>>, c |-> <<>>, A |-> <<>> ]

\* numpy's test on reshape: the sizes must agree, else ValueError.
ReshapeFits(a, theta) ==
    Len(Slice(theta, 3 * a.n_pf, a.n_var)) = (a.n_inputs + 1) * (a.n_cf * a.n_outputs)

\* ANFIS.build_param (lines 198-214): the instance after the call.  mu, s
\* and c are bound before the reshape of line 214 can raise.
build_param(a, theta) ==
    LET i1 == a.n_pf
        i2 == 2 * i1
        i3 == 3 * i1
        i4 == a.n_var
        b == [a EXCEPT !.mu = Slice(theta, 0, i1),
                       !.s = Slice(theta, i1, i2),
                       !.c = Slice(theta, i2, i3)]
    IN  IF ReshapeFits(a, theta)
        THEN [b EXCEPT !.A = Reshape(Slice(theta, i3, i4), a.n_inputs + 1,
                                     a.n_cf * a.n_outputs)]
        ELSE b

\* The test of line 110 left out: the layout is built in every call.
EveryTime(a) == TRUE

\* The test of line 110.
FirstTime(a) == a.init_prob

\* Lines 110-121 of create_model: the layout, built the first time only.
Layout(a, X, Y) ==
    IF FirstTime(a)
    THEN LET b == [a EXCEPT !.init_prob = FALSE,
                            !.combs = build_combs(a.n_mf),
                            !.Xe = expand_input_dataset(a.n_mf, X)]
         IN  IF a.problem = "C"
             THEN [b EXCEPT !.Yout = build_class_matrix(Y)[1],
                            !.Yu = build_class_matrix(Y)[2]]
             ELSE b
    ELSE a

Params(a) == <<a.mu, a.s, a.c, a.A>>

Cache(a) == <<a.combs, a.Xe, a.Yout, a.Yu>>

\* The instances explored.
Instances ==
    { NewANFIS(nm, n_out, pr) :
        nm \in UNION { [1..n -> 1..MaxMf] : n \in 1..MaxInputs },
        n_out \in 1..MaxOutputs, pr \in {"C", "R"} }

\* The parameter vectors explored in call number n: theta[k] = 1000 n + k,
\* of a length around n_var, so that no two calls pass the same values.
Thetas(a, n) ==
    { [k \in 1..len |-> 1000 * n + k] :
        len \in {a.n_var - 1, a.n_var, a.n_var + 1} }

\* A dataset X of two samples, of shape (2, n_inputs).
DataX(a, x) ==
    << [i \in 1..a.n_inputs |-> i], [i \in 1..a.n_inputs |-> x + i] >>

\* The datasets (X, Y) explored; Y holds the label of each sample.
Datasets(a) == { <<DataX(a, 0), <<0, 1>>>>, <<DataX(a, 10), <<1, 1>>>> }

\* No call yet.  Of a call: the method, the number of calls and of
\* create_model calls so far, how often the layout was built so far, the
\* argument theta, whether the call raised, whether forward_steps ran, the
\* instance before the call and the data of the call.
NoCall == [ op |-> "none", n |-> 0, creates |-> 0, layouts |-> 0,
            theta |-> <<>>, raised |-> FALSE, forward |-> FALSE,
            before |-> <<>>, X |-> <<>>, Y |-> <<>> ]

\* The state in which no ANFIS instance is under study.
NoANFIS == anfis = NewANFIS(<<1>>, 1, "R") /\ last = NoCall

\* No component is followed through lines 655-685.
NoStep ==
    step = [d |-> 0, pos |-> 0, v |-> 0, vel |-> 0, new |-> 0,
            applied |-> FALSE]

\* learner.create_model(theta, (X, Y)) (lines 101-140).
CreateModel ==
    /\ last.n < MaxCalls
    /\ \E theta \in Thetas(anfis, last.n + 1), args \in Datasets(anfis) :
        LET X == args[1]
            Y == args[2]
            a1 == Layout(anfis, X, Y)
            a2 == build_param(a1, theta)
            ok == ReshapeFits(a1, theta)
        IN  /\ anfis' = a2
            /\ last' = [ op |-> "create_model", n |-> last.n + 1,
                         creates |-> last.creates + 1,
                         layouts |-> last.layouts
                                     + (IF FirstTime(anfis) THEN 1 ELSE 0),
                         theta |-> theta,
                         raised |-> ~ok, forward |-> ok,
                         before |-> anfis, X |-> X, Y |-> Y ]
    /\ UNCHANGED <<pso_vars, step_vars>>

\* learner.build_param(theta), called directly.
BuildParam ==
    /\ last.n < MaxCalls
    /\ \E theta \in Thetas(anfis, last.n + 1) :
        /\ anfis' = build_param(anfis, theta)
        /\ last' = [ op |-> "build_param", n |-> last.n + 1,
                     creates |-> last.creates,
                     layouts |-> last.layouts,
                     theta |-> theta,
                     raised |-> ~ReshapeFits(anfis, theta), forward |-> FALSE,
                     before |-> anfis, X |-> <<>>, Y |-> <<>> ]
    /\ UNCHANGED <<pso_vars, step_vars>>

----------------------------------------------------------------------------
(* Specifications *)

\* PSO called with a search space LB <= UB.
Init ==
    NoANFIS /\ NoStep /\ \E c \in Configs(Boxes) : Called(c)

Next == PSOInit \/ Move \/ Evaluate \/ Finish

Spec == Init /\ [][Next]_vars

\* PSO called with an empty search space, LB > UB.
InitEmpty ==
    NoANFIS /\ NoStep /\ \E c \in Configs(EmptyBoxes) : Called(c)

SpecEmpty == InitEmpty /\ [][Next]_vars

\* One ANFIS instance and the calls of its methods.
InitANFIS ==
    /\ \E a \in Instances : anfis = a
    /\ last = NoCall
    /\ NoStep
    /\ Called(CHOOSE c \in Configs({NormBox}) : TRUE)

NextANFIS == CreateModel \/ BuildParam

SpecANFIS == InitANFIS /\ [][NextANFIS]_vars

\* One component of one agent through lines 655-685, as a function of its
\* position, its clamped velocity and the draws of the confinement rule.
\* A box three units wide, [0, 3], lets an integer variable move by one
\* and stay strictly inside.
WideBox == <<0, 3 * Scale>>

StepBoxes == Boxes \cup {WideBox}

\* The positions an agent can hold at line 655: the initial ones of lines
\* 604-607 and the ones lines 675-685 leave.
StepPositions(c, d) ==
    { RoundInt(c, d, q) : q \in LBn(c, d)..UBn(c, d) }
        \cup { ClipPos(c, d, RoundInt(c, d, q)) : q \in LBn(c, d)..UBn(c, d) }

\* The velocities line 653 leaves.
StepVelocities(c, d) == VelMin(c, d)..VelMax(c, d)

InitStep ==
    /\ NoANFIS
    /\ \E c \in Configs(StepBoxes) :
        /\ Called(c)
        /\ \E d \in Dims :
           \E p \in StepPositions(c, d), v \in StepVelocities(c, d) :
            step = [d |-> d, pos |-> p, v |-> v, vel |-> 0, new |-> 0,
                    applied |-> FALSE]

\* Lines 655-685 for the component step.d of an agent at step.pos whose
\* velocity line 653 left at step.v.
Confine ==
    /\ ~step.applied
    /\ \E r \in ConfDraws(cfg, IsOut(cfg, step.d,
                                     TmpPos(cfg, step.d, step.pos, step.v))) :
        LET v2 == ConfinedVel(cfg, step.d, step.pos, step.v, r[1], r[2])
        IN  step' = [step EXCEPT !.vel = v2,
                                 !.new = NewPos(cfg, step.d, step.pos, v2),
                                 !.applied = TRUE]
    /\ UNCHANGED <<pso_vars, anfis_vars>>

NextStep == Confine

SpecStep == InitStep /\ [][NextStep]_vars

----------------------------------------------------------------------------
(* Properties of PSO *)

\* C1.  The swarm-best cost never increases: every step of PSO after the
\* initialization, whatever the configuration, the draws and the costs func
\* returns, leaves swarm_best_cost at or below the value it had, so the
\* cost at the end of an epoch is at most the cost at the end of the epoch
\* before, and the cost after the first epoch at most the initial one.
C1_NonIncreasing == [][pc # "start" => swarm_best_cost' <= swarm_best_cost]_vars

\* An epoch has ended in which the swarm-best cost went down, and an
\* agent's personal best stays above it.
C1_Improved ==
    /\ pc = "loop"
    /\ epoch >= 1
    /\ swarm_best_cost < prev_best
    /\ \E i \in Particles : agent_best_cost[i] > swarm_best_cost

\* The positions are those of the end of an epoch: the move of an epoch
\* was made.
EpochMoved == pc = "eval" \/ epoch >= 1

\* Variable d is not an integer variable whose interval [LB, UB] holds no
\* integer.
HoldsInteger(c, d) ==
    d \in c.IntVar => Ceil(LBn(c, d)) <= Floor(UBn(c, d))

InBox(c, d, x) == LBn(c, d) <= x /\ x <= UBn(c, d)

\* C2 as stated.  At the end of every epoch every position of every agent
\* lies in [LB, UB], for every confinement type and for the integer
\* variables as well.
C2_Confined ==
    EpochMoved =>
        \A i \in Particles, d \in Dims : InBox(cfg, d, agent_pos[i][d])

\* C2, amended.  At the end of every epoch every position of every agent
\* lies in [LB, UB], for every confinement type, in every variable that is
\* not an integer variable with no integer between LB and UB.
C2_ConfinedWhereInteger ==
    EpochMoved =>
        \A i \in Particles, d \in Dims :
            HoldsInteger(cfg, d) => InBox(cfg, d, agent_pos[i][d])

\* An epoch has ended in which an agent was brought back into [LB, UB] in
\* an integer variable: its personal best is still the initial position,
\* which the rounding of line 607 had put outside.
C2_BroughtBack ==
    /\ pc = "loop"
    /\ epoch >= 1
    /\ \E i \in Particles, d \in cfg.IntVar :
        /\ HoldsInteger(cfg, d)
        /\ ~InBox(cfg, d, agent_best_pos[i][d])
        /\ InBox(cfg, d, agent_pos[i][d])

\* C3.  An integer variable holds an integral value in every agent after
\* the initialization and at the end of every epoch, and so in every matrix
\* handed to func.
C3_Integral ==
    pc # "start" =>
        \A i \in Particles, d \in cfg.IntVar :
            /\ IsIntegral(agent_pos[i][d])
            /\ IsIntegral(handed[i][d])

\* C4.  The main loop makes exactly epochs iterations whatever the costs
\* are: PSO cannot return before epochs iterations are made and returns
\* after them, and func has been called once at the initialization and once
\* in every epoch, epochs + 1 times in the end, each time with a matrix of
\* nPop rows.
C4_FixedEpochs ==
    /\ epoch <= cfg.epochs
    /\ pc = "start" => nCalls = 0 /\ epoch = 0
    /\ pc # "start" => nCalls = epoch + 1 /\ DOMAIN handed = Particles
    /\ pc = "eval" => epoch < cfg.epochs
    /\ pc = "loop" => (ENABLED Finish <=> epoch = cfg.epochs)
    /\ pc = "done" => epoch = cfg.epochs /\ nCalls = cfg.epochs + 1

\* PSO is done after an epoch that did not improve the swarm best, which
\* holds the least cost there is.
C4_DoneAfterStagnation ==
    /\ pc = "done"
    /\ epoch = cfg.epochs
    /\ prev_best = swarm_best_cost
    /\ swarm_best_cost = 0

\* C5.  What PSO returns: the cost is the least of all the costs func
\* returned, at the initialization or in any epoch; the index is that of an
\* agent whose personal-best cost is that cost; the position is that agent's
\* personal-best position, in the original bounds if normalize is set, and
\* it is the row func returned that cost for.
C5_Result ==
    pc = "done" =>
        /\ ret.cost = minSeen
        /\ ret.idx \in Particles
        /\ agent_best_cost[ret.idx] = ret.cost
        /\ ret.pos = HandedMatrix(cfg, agent_best_pos)[ret.idx]
        /\ ret.pos = argSeen

\* PSO returns, in a normalized search space, the second agent, which found
\* the best cost in the last epoch at a position it has left the initial
\* one for.
C5_FoundLast ==
    /\ pc = "done"
    /\ cfg.normalize
    /\ ret.idx = 2
    /\ ret.cost < prev_best
    /\ ret.pos # [d \in Dims |-> cfg.LB[d]]

\* C7.  PSO called with LB[i] > UB[i] for some variable i fails at once:
\* no position is sampled and func is not called.
C7_Rejected ==
    (\E d \in Dims : cfg.LB[d] > cfg.UB[d]) => pc = "start" /\ nCalls = 0

\* x lies between LB_orig and UB_orig of variable d.
InOrigBox(c, d, x) == c.LB[d] <= x /\ x <= c.UB[d]

\* y is LB_orig + x * (UB_orig - LB_orig), x on the grid of [0, 1].
AffineImage(c, d, x, y) == Scale * (y - c.LB[d]) = x * (c.UB[d] - c.LB[d])

\* C11.  With normalize set, after the initialization every position and
\* every personal-best position lies in [0, 1]; the matrix last handed to
\* func lies in the original bounds and, until the positions move again, is
\* LB_orig + agent_pos * (UB_orig - LB_orig); and the position returned is
\* that image of the swarm best and lies in the original bounds.
C11_Normalized ==
    (cfg.normalize /\ pc # "start") =>
        /\ \A i \in Particles, d \in Dims :
            /\ 0 <= agent_pos[i][d] /\ agent_pos[i][d] <= Scale
            /\ 0 <= agent_best_pos[i][d] /\ agent_best_pos[i][d] <= Scale
            /\ InOrigBox(cfg, d, handed[i][d])
            /\ pc # "eval" =>
                    AffineImage(cfg, d, agent_pos[i][d], handed[i][d])
        /\ pc = "done" =>
                \A d \in Dims :
                    /\ AffineImage(cfg, d,
                                   agent_best_pos[swarm_best_idx][d], ret.pos[d])
                    /\ InOrigBox(cfg, d, ret.pos[d])

\* PSO returns, in a normalized search space, a position that is neither
\* the normalized one nor the lower bound, while an agent stands elsewhere.
C11_Returned ==
    /\ pc = "done"
    /\ cfg.normalize
    /\ \E d \in Dims :
        /\ ret.pos[d] > cfg.LB[d]
        /\ ret.pos[d] # agent_best_pos[swarm_best_idx][d]
        /\ \E i \in Particles : agent_pos[i][d] # agent_best_pos[swarm_best_idx][d]

\* C12.  With K = 0, at the start of every epoch the group best of every
\* agent is the swarm-best position, and the factor p_equal_g of the gravity
\* point is 0.75 for the agent that is the swarm best now and 1.0 for every
\* other agent, also after the swarm best has moved to another agent.
C12_BiasOfSwarmBest ==
    (cfg.K = 0 /\ pc = "loop") =>
        \A i \in Particles :
            /\ group_best_pos[i] = agent_best_pos[swarm_best_idx]
            /\ p_equal_g[i] = (IF i = swarm_best_idx THEN 3 ELSE 4)

\* C13.  After PSO has returned, the learner of the agent at the returned
\* index holds the parameters of the returned position, also when the
\* position func evaluated last for that agent was worse than its personal
\* best.
C13_BestLearner ==
    pc = "done" => LearnerTheta(ret.idx) = ret.pos

\* Agent i has the least personal-best cost and no agent before it has it.
FirstOfLeast(i) ==
    /\ i \in Particles
    /\ \A j \in Particles : agent_best_cost[i] <= agent_best_cost[j]
    /\ \A j \in 1..(i - 1) : agent_best_cost[j] > agent_best_cost[i]

\* C14 as stated.  After the initialization and at the end of every epoch
\* the swarm-best index is the lowest index of the agents whose personal-best
\* cost is the least, in whatever order the agents reached that cost.
C14_FirstOccurrence == pc # "start" => FirstOfLeast(swarm_best_idx)

\* C14, amended.  After the initialization and at the end of every epoch
\* the swarm-best index is that of an agent whose personal-best cost is the
\* least; it is the lowest such index after the initialization and after
\* every epoch that lowered the swarm-best cost, and it is the index of
\* before after every epoch that did not.
C14_FirstOfImprovement ==
    /\ [](pc # "start" =>
            /\ swarm_best_idx \in Particles
            /\ agent_best_cost[swarm_best_idx] = swarm_best_cost
            /\ \A j \in Particles : swarm_best_cost <= agent_best_cost[j]
            /\ (pc = "loop" /\ epoch = 0) => FirstOfLeast(swarm_best_idx))
    /\ [][pc = "eval" =>
            IF swarm_best_cost' < swarm_best_cost
            THEN FirstOfLeast(swarm_best_idx)'
            ELSE swarm_best_idx' = swarm_best_idx]_vars

\* An epoch has ended in which the first agent reached the cost of the
\* swarm best, which the second agent has held since an earlier epoch.
C14_Tie ==
    /\ pc = "loop"
    /\ epoch >= 2
    /\ swarm_best_idx = 2
    /\ agent_best_cost[1] = swarm_best_cost
    /\ prev_best = swarm_best_cost

\* C15.  With K > 0 the informant matrix is drawn again at the end of an
\* epoch exactly if the swarm-best cost did not go down in it, and is the
\* matrix of before if it did; with K = 0 no matrix is ever drawn; and every
\* matrix in use, the initial one or a later one, has a 1 on its diagonal
\* for every agent.
C15_Informants ==
    /\ [](pc # "start" =>
            IF cfg.K = 0
            THEN ~sampled /\ informants = NoInformants
            ELSE \A i \in Particles : informants[i][i] = 1)
    /\ [][pc = "start" => (sampled' <=> cfg.K # 0)]_vars
    /\ [][pc = "eval" =>
            /\ sampled' <=> (cfg.K # 0 /\ ~(swarm_best_cost' < swarm_best_cost))
            /\ swarm_best_cost' < swarm_best_cost => informants' = informants]_vars

\* With K > 0 an epoch that did not lower the swarm-best cost has ended
\* with a newly drawn matrix in which some agent does not inform another.
C15_Resampled ==
    /\ pc = "loop"
    /\ epoch >= 1
    /\ cfg.K # 0
    /\ sampled
    /\ prev_best = swarm_best_cost
    /\ \E i, j \in Particles : informants[i][j] = 0

\* C16.  After the initialization and at the end of every epoch, the
\* confinement of the flagged components included, every component v of
\* every velocity is a number with -vel_max <= v <= vel_max, for each of the
\* confinement rules RB, HY and MX.
C16_VelocityLimit ==
    pc # "start" =>
        \A i \in Particles, d \in Dims :
            /\ ~IsNaN(agent_vel[i][d])
            /\ - VelMax(cfg, d) <= agent_vel[i][d]
            /\ agent_vel[i][d] <= VelMax(cfg, d)

\* The tentative position of the component followed: pos + v', rounded
\* where the variable is an integer one.
Tentative ==
    IF step.d \in cfg.IntVar THEN NpRound(step.pos + step.v)
    ELSE step.pos + step.v

\* The tentative position is not strictly inside the open interval (LB, UB).
Flagged == ~(LBn(cfg, step.d) < Tentative /\ Tentative < UBn(cfg, step.d))

\* The velocities the confinement rule in use can give the component.
ConfinementVelocities ==
    { VelConf(cfg, step.d, step.pos, step.v, r[1], r[2]) :
        r \in ConfDraws(cfg, TRUE) }

\* C17 as stated.  The velocity of a component is replaced by the
\* confinement velocity exactly when its tentative position pos + v'
\* (rounded for an integer variable) is not strictly inside (LB, UB), a
\* tentative position on LB or on UB being flagged; an unflagged component
\* keeps v' and its new position is pos + v'.
C17_FrameEffect ==
    step.applied =>
        /\ Flagged => step.vel \in ConfinementVelocities
        /\ ~Flagged => step.vel = step.v /\ step.new = step.pos + step.v

\* C17, amended.  The velocity of a component is replaced by the
\* confinement velocity exactly when its tentative position (pos + v',
\* rounded for an integer variable) is not strictly inside (LB, UB), a
\* tentative position on LB or on UB being flagged; an unflagged component
\* keeps v' and its new position is its tentative position, which is
\* round(pos + v') and not pos + v' for an integer variable.
C17_FrameEffectRounded ==
    step.applied =>
        /\ Flagged => step.vel \in ConfinementVelocities
        /\ ~Flagged => step.vel = step.v /\ step.new = Tentative

\* A component whose tentative position is exactly UB, with a velocity that
\* is not zero, got another velocity.
C17_OnUpperBound ==
    /\ step.applied
    /\ Tentative = UBn(cfg, step.d)
    /\ step.v # 0
    /\ step.vel # step.v

\* C18.  Every coordinate of every agent of every matrix handed to func,
\* the one of the initial evaluation included, lies in the search box
\* [LB, UB] of its variable (the original bounds under normalize), integer
\* variables with their rounded initial positions included.
C18_HandedInBox ==
    nCalls > 0 =>
        \A i \in Particles, d \in Dims : InOrigBox(cfg, d, handed[i][d])

----------------------------------------------------------------------------
(* Properties of ANFIS *)

\* C6.  A call of build_param, directly or from create_model, with a theta
\* whose length is not n_var, shorter or longer, raises an error before
\* anything is rebound or computed: mu, s, c and A are those of before the
\* call and forward_steps has not run.
C6_Rejected ==
    (last.op # "none" /\ Len(last.theta) # last.before.n_var) =>
        /\ last.raised
        /\ ~last.forward
        /\ Params(anfis) = Params(last.before)

\* Column j of combs comes before column k in the lexicographic order.
ColumnLess(combs, j, k) ==
    \E i \in 1..Len(combs) :
        /\ combs[i][j] < combs[i][k]
        /\ \A h \in 1..(i - 1) : combs[h][j] = combs[h][k]

\* C9.  Once built, combs has n_inputs rows and prod(n_mf) columns, row i
\* of every column holds an index of input i's range
\* [sum(n_mf[:i]), sum(n_mf[:i+1])), and the columns are in strictly
\* increasing lexicographic order, the last input varying fastest: being
\* prod(n_mf) distinct elements of the product of the ranges, they are
\* every element of it once.  For n_mf = [3, 2] they are the six columns of
\* {0,1,2} x {3,4}.
C9_Product ==
    ~anfis.init_prob =>
        LET nm == anfis.n_mf
            combs == anfis.combs
        IN  /\ Len(combs) = anfis.n_inputs
            /\ \A i \in 1..Len(nm) :
                /\ Len(combs[i]) = ProdSeq(nm)
                /\ \A j \in 1..ProdSeq(nm) :
                    /\ SumSeq(SubSeq(nm, 1, i - 1)) <= combs[i][j]
                    /\ combs[i][j] < SumSeq(SubSeq(nm, 1, i))
            /\ \A j, k \in 1..ProdSeq(nm) :
                    j < k => ColumnLess(combs, j, k)
            /\ nm = <<3, 2>> =>
                    combs = << <<0, 0, 1, 1, 2, 2>>, <<3, 4, 3, 4, 3, 4>> >>

\* The layout of an instance with n_mf = [3, 2] is built.
C9_ThreeByTwo == ~anfis.init_prob /\ anfis.n_mf = <<3, 2>>

\* C10.  Over the calls of create_model on one instance the layout is built
\* once, in the first call: combs from n_mf, Xe from that call's X, and for
\* a classification problem Yout and Yu from that call's Y.  A later call
\* changes nothing of the instance but mu, s, c and A, which it binds from
\* its theta.
C10_LayoutOnce ==
    /\ last.layouts = (IF last.creates >= 1 THEN 1 ELSE 0)
    /\ (last.op = "create_model" /\ last.creates = 1) =>
        /\ anfis.combs = build_combs(anfis.n_mf)
        /\ anfis.Xe = expand_input_dataset(anfis.n_mf, last.X)
        /\ anfis.problem = "C" =>
                <<anfis.Yout, anfis.Yu>> = build_class_matrix(last.Y)
    /\ (last.op = "create_model" /\ last.creates >= 2) =>
        /\ Cache(anfis) = Cache(last.before)
        /\ [anfis EXCEPT !.mu = last.before.mu, !.s = last.before.s,
                         !.c = last.before.c, !.A = last.before.A]
               = last.before
        /\ anfis.mu = Slice(last.theta, 0, anfis.n_pf)
        /\ anfis.s = Slice(last.theta, anfis.n_pf, 2 * anfis.n_pf)
        /\ anfis.c = Slice(last.theta, 2 * anfis.n_pf, 3 * anfis.n_pf)
        /\ ~last.raised =>
                anfis.A = Reshape(Slice(last.theta, 3 * anfis.n_pf, anfis.n_var),
                                  anfis.n_inputs + 1,
                                  anfis.n_cf * anfis.n_outputs)

\* A second call of create_model, on a classifier, has bound its theta and
\* kept the Xe, Yout and Yu of the first call, which are not those of its
\* own data.
C10_Reused ==
    /\ last.op = "create_model"
    /\ last.creates = 2
    /\ ~last.raised
    /\ anfis.problem = "C"
    /\ anfis.Xe # expand_input_dataset(anfis.n_mf, last.X)
    /\ anfis.Yout # build_class_matrix(last.Y)[1]
    /\ Params(anfis) # Params(last.before)

====
